---- MODULE Spec2Model ----
(***************************************************************************)
(* Model of the CPU rasterizer core in src/src/renderer.rs: the triangle   *)
(* pipeline (viewport transform, trapezoid scanline fill, outline pass),   *)
(* the Cohen-Sutherland line clipper and the integer line rasterizer.      *)
(*                                                                         *)
(* f32 values are modelled as exact rationals <<n, d>> in lowest terms     *)
(* with d > 0; the pair <<0, 0>> stands for a non-finite result (what a    *)
(* division by zero produces).  i32 values are TLA+ integers; the inputs   *)
(* are bounded so that no i32 overflow can arise.                          *)
(***************************************************************************)
EXTENDS Integers, Sequences, FiniteSets, TLC

(* ------------------------------ bounds --------------------------------- *)

\* line endpoints are taken this far outside the canvas on every side
Margin == 2
\* NDC x of triangle vertices ranges over the integers -NdcMaxX..NdcMaxX
NdcMaxX == 1
\* NDC y of triangle vertices ranges over the halves k/2, |k| <= NdcMaxHalfY
NdcMaxHalfY == 4
\* the width and the height of the small, non-square canvas
SmallW == 4
SmallH == 3

(* --------------------------- f32 arithmetic ---------------------------- *)

Abs(n) == IF n < 0 THEN -n ELSE n

\* TLC passes operator arguments unevaluated; binding them as the element
\* of a singleton set evaluates each argument once
RECURSIVE Gcd(_, _)
Gcd(a0, b0) ==
    CHOOSE r \in {IF v[2] = 0 THEN v[1] ELSE Gcd(v[2], v[1] % v[2]) :
                      v \in {<<a0, b0>>}} : TRUE

NaN == <<0, 0>>

IsFinite(a) == a[2] # 0

Rat(n0, d0) ==
    CHOOSE r \in {IF v[2] = 0 THEN NaN
                  ELSE LET g == Gcd(Abs(v[1]), Abs(v[2]))
                           s == IF v[2] < 0 THEN -1 ELSE 1
                       IN  <<(s * v[1]) \div g, (s * v[2]) \div g>> :
                      v \in {<<n0, d0>>}} : TRUE

\* an integer as f32 (`as f32`)
F(n) == <<n, 1>>

RAdd(a0, b0) ==
    CHOOSE r \in {IF IsFinite(v[1]) /\ IsFinite(v[2])
                  THEN Rat(v[1][1] * v[2][2] + v[2][1] * v[1][2],
                           v[1][2] * v[2][2])
                  ELSE NaN : v \in {<<a0, b0>>}} : TRUE

RSub(a0, b0) ==
    CHOOSE r \in {IF IsFinite(v[1]) /\ IsFinite(v[2])
                  THEN Rat(v[1][1] * v[2][2] - v[2][1] * v[1][2],
                           v[1][2] * v[2][2])
                  ELSE NaN : v \in {<<a0, b0>>}} : TRUE

RMul(a0, b0) ==
    CHOOSE r \in {IF IsFinite(v[1]) /\ IsFinite(v[2])
                  THEN Rat(v[1][1] * v[2][1], v[1][2] * v[2][2])
                  ELSE NaN : v \in {<<a0, b0>>}} : TRUE

\* a zero divisor gives a non-finite value
RDiv(a0, b0) ==
    CHOOSE r \in {IF IsFinite(v[1]) /\ IsFinite(v[2])
                  THEN Rat(v[1][1] * v[2][2], v[1][2] * v[2][1])
                  ELSE NaN : v \in {<<a0, b0>>}} : TRUE

\* comparisons with a non-finite (NaN) operand are false
RLt(a, b) == IsFinite(a) /\ IsFinite(b) /\ a[1] * b[2] < b[1] * a[2]
RLe(a, b) == IsFinite(a) /\ IsFinite(b) /\ a[1] * b[2] <= b[1] * a[2]
RGt(a, b) == RLt(b, a)
RGe(a, b) == RLe(b, a)

\* f32::max / f32::min return the other operand when one is NaN
RMax(a, b) == IF ~IsFinite(a) THEN b ELSE IF ~IsFinite(b) THEN a
              ELSE IF RLt(a, b) THEN b ELSE a
RMin(a, b) == IF ~IsFinite(a) THEN b ELSE IF ~IsFinite(b) THEN a
              ELSE IF RLt(b, a) THEN b ELSE a

\* f32::ceil
Ceil(a) == IF IsFinite(a) THEN F(-((-a[1]) \div a[2])) ELSE NaN

\* `as i32` / `as u32` of a float: truncation toward zero, NaN gives 0
AsInt(a) ==
    IF ~IsFinite(a) THEN 0
    ELSE IF a[1] >= 0 THEN a[1] \div a[2] ELSE -((-a[1]) \div a[2])

(* ------------------------- Cohen-Sutherland ---------------------------- *)

INSIDE == 0
LEFT == 1
RIGHT == 2
BOTTOM == 4
TOP == 8

\* outcode & bit != 0
HasBit(code, bit) == (code \div bit) % 2 = 1

\* a & b, for 4-bit codes
BitAnd(a, b) ==
    (IF HasBit(a, LEFT) /\ HasBit(b, LEFT) THEN LEFT ELSE 0)
    + (IF HasBit(a, RIGHT) /\ HasBit(b, RIGHT) THEN RIGHT ELSE 0)
    + (IF HasBit(a, BOTTOM) /\ HasBit(b, BOTTOM) THEN BOTTOM ELSE 0)
    + (IF HasBit(a, TOP) /\ HasBit(b, TOP) THEN TOP ELSE 0)

\* a | b, for 4-bit codes
BitOr(a, b) == a + b - BitAnd(a, b)

\* a point is <<x, y>>, both f32
compute_outcode(p, min, max) ==
    BitOr(IF RLt(p[1], min[1]) THEN LEFT
          ELSE IF RGt(p[1], max[1]) THEN RIGHT
          ELSE INSIDE,
          IF RLt(p[2], min[2]) THEN BOTTOM
          ELSE IF RGt(p[2], max[2]) THEN TOP
          ELSE INSIDE)

\* the reject test with `outcode1 == outcode2` in place of the bitwise and
TrivialRejectSameCode(o1, o2) == o1 = o2 /\ o1 # 0

\* `outcode1 & outcode2 != 0`: the trivial reject test
TrivialReject(o1, o2) == BitAnd(o1, o2) # 0

\* `outcode1 | outcode2 == 0`: the trivial accept test
TrivialAccept(o1, o2) == BitOr(o1, o2) = 0

\* the choice with the comparison reversed
PickSmallerOutcode(o1, o2) == IF o2 < o1 THEN o2 ELSE o1

\* the endpoint's outcode that the iteration clips
PickOutcode(o1, o2) == IF o2 > o1 THEN o2 ELSE o1

\* the denominator of the intersection formula the iteration evaluates
\* (zero when no branch is taken is not a division: F(1) stands for none)
ClipDenominator(c, outcode) ==
    IF HasBit(outcode, TOP) \/ HasBit(outcode, BOTTOM)
    THEN RSub(c.pt2[2], c.pt1[2])
    ELSE IF HasBit(outcode, RIGHT) \/ HasBit(outcode, LEFT)
    THEN RSub(c.pt2[1], c.pt1[1])
    ELSE F(1)

\* the x the TOP and BOTTOM formulas start from: the original p1.x
ClipBaseX(c) == c.p1[1]

\* the intersection point p of one iteration; c is the clipper's locals
ClipIntersect(c, outcode) ==
    IF HasBit(outcode, TOP)
    THEN <<RAdd(ClipBaseX(c),
                RDiv(RMul(RSub(c.pt2[1], c.pt1[1]), RSub(c.max[2], c.pt1[2])),
                     RSub(c.pt2[2], c.pt1[2]))),
           c.max[2]>>
    ELSE IF HasBit(outcode, BOTTOM)
    THEN <<RAdd(ClipBaseX(c),
                RDiv(RMul(RSub(c.pt2[1], c.pt1[1]), RSub(c.min[2], c.pt1[2])),
                     RSub(c.pt2[2], c.pt1[2]))),
           c.min[2]>>
    ELSE IF HasBit(outcode, RIGHT)
    THEN <<c.max[1],
           RAdd(c.pt1[2],
                RDiv(RMul(RSub(c.pt2[2], c.pt1[2]), RSub(c.max[1], c.pt1[1])),
                     RSub(c.pt2[1], c.pt1[1])))>>
    ELSE IF HasBit(outcode, LEFT)
    THEN <<c.min[1],
           RAdd(c.pt1[2],
                RDiv(RMul(RSub(c.pt2[2], c.pt1[2]), RSub(c.min[1], c.pt1[1])),
                     RSub(c.pt2[1], c.pt1[1])))>>
    ELSE <<F(0), F(0)>>

\* the clipper's locals on entry
ClipEnter(a, b, min, max) ==
    [p1 |-> a, p2 |-> b, min |-> min, max |-> max,
     pt1 |-> a, pt2 |-> b,
     outcode1 |-> compute_outcode(a, min, max),
     outcode2 |-> compute_outcode(b, min, max),
     denom |-> F(1), branch |-> INSIDE]

\* one pass through the loop body that neither rejects nor accepts
ClipIterate(c) ==
    LET outcode == PickOutcode(c.outcode1, c.outcode2)
        p == ClipIntersect(c, outcode)
        b == IF HasBit(outcode, TOP) THEN TOP
             ELSE IF HasBit(outcode, BOTTOM) THEN BOTTOM
             ELSE IF HasBit(outcode, RIGHT) THEN RIGHT
             ELSE IF HasBit(outcode, LEFT) THEN LEFT ELSE INSIDE
        d == ClipDenominator(c, outcode)
    IN  IF outcode = c.outcode1
        THEN [c EXCEPT !.pt1 = p,
                       !.outcode1 = compute_outcode(p, c.min, c.max),
                       !.denom = d, !.branch = b]
        ELSE [c EXCEPT !.pt2 = p,
                       !.outcode2 = compute_outcode(p, c.min, c.max),
                       !.denom = d, !.branch = b]

(* -------------------------- line rasterizer ---------------------------- *)

\* the locals of draw_line_without_clip before its loop
LineEnter(x0, y0, x1, y1) ==
    LET dx0 == Abs(x1 - x0)
        dy0 == Abs(y1 - y0)
        sx0 == IF x1 >= x0 THEN 1 ELSE -1
        sy0 == IF y1 >= y0 THEN 1 ELSE -1
        swap == dx0 < dy0
        dx == IF swap THEN dy0 ELSE dx0
        dy == IF swap THEN dx0 ELSE dy0
    IN  [x0 |-> x0, y0 |-> y0, x1 |-> x1, y1 |-> y1,
         dx |-> dx, dy |-> dy,
         sx |-> IF swap THEN sy0 ELSE sx0,
         sy |-> IF swap THEN sx0 ELSE sy0,
         x |-> IF swap THEN y0 ELSE x0,
         y |-> IF swap THEN x0 ELSE y0,
         steep |-> IF swap THEN 1 ELSE -1,
         final_x |-> IF swap THEN y1 ELSE x1,
         e |-> -dx, step |-> 2 * dy, desc |-> -2 * dx]

\* the write without the un-swap of a steep line's coordinates
LinePixelNoUnswap(l) == <<l.x, l.y>>

\* the pixel the loop body writes
LinePixel(l) == IF l.steep > 0 THEN <<l.y, l.x>> ELSE <<l.x, l.y>>

\* the update with `e > 0` in place of `e >= 0`
LineAdvanceStrict(l) ==
    LET e1 == l.e + l.step
    IN  IF e1 > 0
        THEN [l EXCEPT !.e = e1 + l.desc, !.y = @ + l.sy, !.x = @ + l.sx]
        ELSE [l EXCEPT !.e = e1, !.x = @ + l.sx]

\* the locals after one pass through the loop body
LineAdvance(l) ==
    LET e1 == l.e + l.step
    IN  IF e1 >= 0
        THEN [l EXCEPT !.e = e1 + l.desc, !.y = @ + l.sy, !.x = @ + l.sx]
        ELSE [l EXCEPT !.e = e1, !.x = @ + l.sx]

(* ------------------------ viewport transform --------------------------- *)

\* screen position of an NDC vertex v = <<x, y>> under viewport vp
ViewportTransform(v, vp) ==
    <<RAdd(RMul(RMul(RAdd(v[1], F(1)), <<1, 2>>), RSub(F(vp.w), F(1))),
           F(vp.x)),
      RAdd(RSub(F(vp.h),
                RMul(RMul(RAdd(v[2], F(1)), <<1, 2>>), RSub(F(vp.h), F(1)))),
           F(vp.y))>>

(* ------------------ trapezoid / scanline collaborator ------------------ *)

None == [some |-> FALSE]

\* an edge is <<v1, v2>> with v1 above v2
Some(top, bottom, left, right) ==
    [some |-> TRUE, top |-> top, bottom |-> bottom,
     left |-> left, right |-> right]

\* the three vertices ordered by increasing y
SortByY(vs) ==
    LET s1 == IF RGt(vs[1][2], vs[2][2]) THEN <<vs[2], vs[1], vs[3]>> ELSE vs
        s2 == IF RGt(s1[1][2], s1[3][2]) THEN <<s1[3], s1[2], s1[1]>> ELSE s1
    IN  IF RGt(s2[2][2], s2[3][2]) THEN <<s2[1], s2[3], s2[2]>> ELSE s2

\* Trapezoid::from_triangle: split at the middle vertex's y
from_triangle(vs) ==
    LET s == SortByY(vs)
        a == s[1]
        b == s[2]
        c == s[3]
    IN  IF (a[2] = b[2] /\ a[2] = c[2]) \/ (a[1] = b[1] /\ a[1] = c[1])
        THEN <<None, None>>
        ELSE IF a[2] = b[2]
        THEN LET l == IF RGt(a[1], b[1]) THEN b ELSE a
                 r == IF RGt(a[1], b[1]) THEN a ELSE b
             IN  <<Some(a[2], c[2], <<l, c>>, <<r, c>>), None>>
        ELSE IF b[2] = c[2]
        THEN LET l == IF RGt(b[1], c[1]) THEN c ELSE b
                 r == IF RGt(b[1], c[1]) THEN b ELSE c
             IN  <<Some(a[2], c[2], <<a, l>>, <<a, r>>), None>>
        ELSE LET k == RDiv(RSub(b[2], a[2]), RSub(c[2], a[2]))
                 xl == RAdd(a[1], RMul(RSub(c[1], a[1]), k))
             IN  IF RLe(b[1], xl)
                 THEN <<Some(a[2], b[2], <<a, b>>, <<a, c>>),
                        Some(b[2], c[2], <<b, c>>, <<a, c>>)>>
                 ELSE <<Some(a[2], b[2], <<a, c>>, <<a, b>>),
                        Some(b[2], c[2], <<a, c>>, <<b, c>>)>>

\* x of edge ed at row y
EdgeX(ed, y) ==
    RAdd(ed[1][1],
         RDiv(RMul(RSub(y, ed[1][2]), RSub(ed[2][1], ed[1][1])),
              RSub(ed[2][2], ed[1][2])))

\* Scanline::from_trapezoid: the span of trap at the integer row y
from_trapezoid(trap, y) ==
    LET l == EdgeX(trap.left, F(y))
        r == EdgeX(trap.right, F(y))
    IN  [y |-> y, vertex |-> <<l, F(y)>>, step |-> <<F(1), F(0)>>,
         width |-> RSub(r, l)]

(* --------------------------- trapezoid fill ---------------------------- *)

\* the rows without the clamp of top to 0
ScanRowsNoClamp(trap, h) ==
    LET top == AsInt(Ceil(trap.top))
        bottom == AsInt(RMin(Ceil(trap.bottom), RSub(F(h), F(1)))) - 1
    IN  top .. bottom

\* the rows without the `- 1` that excludes the bottom row
ScanRowsInclusive(trap, h) ==
    LET top == AsInt(RMax(Ceil(trap.top), F(0)))
        bottom == AsInt(RMin(Ceil(trap.bottom), RSub(F(h), F(1))))
    IN  top .. bottom

\* the rows draw_trapezoid scans: top..bottom of its two locals
ScanRows(trap, h) ==
    LET top == AsInt(RMax(Ceil(trap.top), F(0)))
        bottom == AsInt(RMin(Ceil(trap.bottom), RSub(F(h), F(1)))) - 1
    IN  top .. bottom

\* the number of passes of draw_scanline's loop
ScanlineSteps(sl) ==
    IF RGt(sl.width, F(0)) THEN AsInt(Ceil(sl.width)) ELSE 0

\* the writes draw_scanline issues on a buffer of width w
draw_scanline(sl, w) ==
    LET xAt(k) == RAdd(sl.vertex[1], RMul(F(k), sl.step[1]))
    IN  {<<AsInt(xAt(k)), sl.y>> :
            k \in {j \in 0 .. (ScanlineSteps(sl) - 1) :
                      RGe(xAt(j), F(0)) /\ RLt(xAt(j), F(w))}}

\* the writes draw_trapezoid issues on a w x h buffer
draw_trapezoid(trap, w, h) ==
    UNION {draw_scanline(from_trapezoid(trap, y), w) : y \in ScanRows(trap, h)}

(* ---------------------------- the renderer ----------------------------- *)

VARIABLES
    width,      \* color_attachment.width()
    height,     \* color_attachment.height()
    viewport,   \* Renderer.viewport
    op,         \* the public operation called: "none", "line", "triangle"
    args,       \* its points: <<p1, p2>> or the three NDC vertices
    pc,         \* position: "start", "trapezoid", "outline", "clip", "raster", "done"
    vertices,   \* draw_triangle: the screen-space vertices
    traps,      \* draw_triangle: <<trap1, trap2>>
    trapIdx,    \* draw_triangle: the trapezoid to fill next
    rows,       \* the rows draw_trapezoid scanned, per trapezoid
    i,          \* draw_triangle: the index of the outline loop
    clip,       \* locals of cohen_sutherland_line_clip
    line,       \* locals of draw_line_without_clip
    lineLog,    \* the writes of the running draw_line_without_clip, in order
    writes      \* every write issued to the color attachment: <<x, y>>

vars == <<width, height, viewport, op, args, pc, vertices, traps, trapIdx,
          rows, i, clip, line, lineLog, writes>>

Origin == <<F(0), F(0)>>

IdleClip == ClipEnter(Origin, Origin, Origin, Origin)
IdleLine == LineEnter(0, 0, 0, 0)

\* the sizes Renderer::new is called with
SmallSizes == {<<1, 1>>, <<SmallW, SmallH>>}
CanvasSizes == SmallSizes \cup {<<10, 10>>}

\* the endpoints draw_line is called with on a w x h canvas
LinePoints(w, h) ==
    {<<F(px), F(py)>> : px \in (-Margin) .. (w - 1 + Margin),
                        py \in (-Margin) .. (h - 1 + Margin)}

\* the NDC grid: integer x, y in halves
NdcPoints ==
    {<<F(px), Rat(k, 2)>> : px \in (-NdcMaxX) .. NdcMaxX,
                            k \in (-NdcMaxHalfY) .. NdcMaxHalfY}

\* a total order on the NDC grid, by y and then x
NdcIndex(v) ==
    (AsInt(RMul(v[2], F(2))) + NdcMaxHalfY) * (2 * NdcMaxX + 1)
    + (AsInt(v[1]) + NdcMaxX)

\* the vertex triples draw_triangle is called with (identity model matrix
\* and identity view-projection, so w = 1 and NDC equals model space),
\* each triangle taken in one order of its vertices
Triangles ==
    {t \in NdcPoints \X NdcPoints \X NdcPoints :
        NdcIndex(t[1]) <= NdcIndex(t[2]) /\ NdcIndex(t[2]) <= NdcIndex(t[3])}

\* Renderer::new(w, h, camera); no draw call has been made
InitOn(sizes) ==
    \E sz \in sizes :
        /\ width = sz[1]
        /\ height = sz[2]
        /\ viewport = [x |-> 0, y |-> 0, w |-> sz[1], h |-> sz[2]]
        /\ op = "none"
        /\ args = <<>>
        /\ pc = "start"
        /\ vertices = <<Origin, Origin, Origin>>
        /\ traps = <<None, None>>
        /\ trapIdx = 1
        /\ rows = <<{}, {}>>
        /\ i = 0
        /\ clip = IdleClip
        /\ line = IdleLine
        /\ lineLog = <<>>
        /\ writes = {}

\* the clip rectangle draw_line passes: zero .. (width - 1, height - 1)
RectMin == Origin
RectMax == <<RSub(F(width), F(1)), RSub(F(height), F(1))>>

\* draw_line(p1, p2): enter the clipper
DrawLine ==
    /\ pc = "start"
    /\ args' \in LinePoints(width, height) \X LinePoints(width, height)
    /\ clip' = ClipEnter(args'[1], args'[2], RectMin, RectMax)
    /\ op' = "line"
    /\ pc' = "clip"
    /\ UNCHANGED <<width, height, viewport, vertices, traps,
                   trapIdx, rows, i, line, lineLog, writes>>

\* draw_triangle steps 1-4: transform, viewport mapping, split
DrawTriangle ==
    /\ pc = "start"
    /\ args' \in Triangles
    /\ vertices' = <<ViewportTransform(args'[1], viewport),
                     ViewportTransform(args'[2], viewport),
                     ViewportTransform(args'[3], viewport)>>
    /\ traps' = from_triangle(vertices')
    /\ op' = "triangle"
    /\ trapIdx' = 1
    /\ pc' = "trapezoid"
    /\ UNCHANGED <<width, height, viewport, rows, i, clip, line,
                   lineLog, writes>>

\* `if let Some(trap) = trapN { self.draw_trapezoid(trap, color) }`
FillTrapezoid ==
    /\ pc = "trapezoid" /\ traps[trapIdx].some
    /\ rows' = [rows EXCEPT ![trapIdx] = ScanRows(traps[trapIdx], height)]
    /\ writes' = writes \cup draw_trapezoid(traps[trapIdx], width, height)
    /\ trapIdx' = trapIdx + 1
    /\ pc' = IF trapIdx = 2 THEN "outline" ELSE "trapezoid"
    /\ UNCHANGED <<width, height, viewport, op, args, vertices, traps, i,
                   clip, line, lineLog>>

\* the trapezoid is None
SkipTrapezoid ==
    /\ pc = "trapezoid" /\ ~traps[trapIdx].some
    /\ trapIdx' = trapIdx + 1
    /\ pc' = IF trapIdx = 2 THEN "outline" ELSE "trapezoid"
    /\ UNCHANGED <<width, height, viewport, op, args, vertices, traps, rows,
                   i, clip, line, lineLog, writes>>

\* the outline loop calls draw_line(vertices[i], vertices[(i + 1) % 3])
OutlineEdge ==
    /\ pc = "outline" /\ i < 3
    /\ clip' = ClipEnter(vertices[i + 1], vertices[((i + 1) % 3) + 1],
                         RectMin, RectMax)
    /\ pc' = "clip"
    /\ UNCHANGED <<width, height, viewport, op, args, vertices, traps,
                   trapIdx, rows, i, line, lineLog, writes>>

\* the outline loop ends and draw_triangle returns
TriangleReturn ==
    /\ pc = "outline" /\ i = 3
    /\ pc' = "done"
    /\ UNCHANGED <<width, height, viewport, op, args, vertices, traps,
                   trapIdx, rows, i, clip, line, lineLog, writes>>

\* where draw_line returns to
AfterLine == IF op = "line" THEN "done" ELSE "outline"
NextEdge == IF op = "line" THEN i ELSE i + 1

\* the clipper returns None, and draw_line returns without drawing
ClipReject ==
    /\ pc = "clip"
    /\ TrivialReject(clip.outcode1, clip.outcode2)
    /\ clip' = IdleClip
    /\ pc' = AfterLine
    /\ i' = NextEdge
    /\ UNCHANGED <<width, height, viewport, op, args, vertices, traps,
                   trapIdx, rows, line, lineLog, writes>>

\* the clipper returns Some((pt1, pt2)); draw_line casts the coordinates
\* to i32 and enters draw_line_without_clip
ClipAccept ==
    /\ pc = "clip"
    /\ ~TrivialReject(clip.outcode1, clip.outcode2)
    /\ TrivialAccept(clip.outcode1, clip.outcode2)
    /\ line' = LineEnter(AsInt(clip.pt1[1]), AsInt(clip.pt1[2]),
                         AsInt(clip.pt2[1]), AsInt(clip.pt2[2]))
    /\ lineLog' = <<>>
    /\ pc' = "raster"
    /\ UNCHANGED <<width, height, viewport, op, args, vertices, traps,
                   trapIdx, rows, i, clip, writes>>

\* one iteration of the clipper's loop that replaces an endpoint
ClipStep ==
    /\ pc = "clip"
    /\ ~TrivialReject(clip.outcode1, clip.outcode2)
    /\ ~TrivialAccept(clip.outcode1, clip.outcode2)
    /\ clip' = ClipIterate(clip)
    /\ UNCHANGED <<width, height, viewport, op, args, pc, vertices, traps,
                   trapIdx, rows, i, line, lineLog, writes>>

\* one pass through the rasterizer's loop: a write, then the update
LineStep ==
    /\ pc = "raster"
    /\ line.x # line.final_x
    /\ writes' = writes \cup {LinePixel(line)}
    /\ lineLog' = Append(lineLog, LinePixel(line))
    /\ line' = LineAdvance(line)
    /\ UNCHANGED <<width, height, viewport, op, args, pc, vertices, traps,
                   trapIdx, rows, i, clip>>

\* the loop exits; draw_line_without_clip and draw_line return
LineReturn ==
    /\ pc = "raster"
    /\ line.x = line.final_x
    /\ line' = IdleLine
    /\ lineLog' = <<>>
    /\ clip' = IdleClip
    /\ pc' = AfterLine
    /\ i' = NextEdge
    /\ UNCHANGED <<width, height, viewport, op, args, vertices, traps,
                   trapIdx, rows, writes>>

Next ==
    \/ DrawLine
    \/ DrawTriangle
    \/ FillTrapezoid
    \/ SkipTrapezoid
    \/ OutlineEdge
    \/ TriangleReturn
    \/ ClipReject
    \/ ClipAccept
    \/ ClipStep
    \/ LineStep
    \/ LineReturn

Init == InitOn(CanvasSizes)

Spec == Init /\ [][Next]_vars

\* draw_line alone, on the small canvases
LineInit == InitOn(SmallSizes)

LineNext ==
    \/ DrawLine
    \/ ClipReject
    \/ ClipAccept
    \/ ClipStep
    \/ LineStep
    \/ LineReturn

\* a call runs on the caller's thread with no suspension point: each step
\* of a running draw_line is eventually taken
LineSpec ==
    /\ LineInit /\ [][LineNext]_vars
    /\ WF_vars(ClipReject) /\ WF_vars(ClipAccept) /\ WF_vars(ClipStep)
    /\ WF_vars(LineStep) /\ WF_vars(LineReturn)

(* ------------------------------ geometry ------------------------------- *)

\* q lies in the rectangle [min, max], boundary included
InRect(q, min, max) ==
    /\ RLe(min[1], q[1]) /\ RLe(q[1], max[1])
    /\ RLe(min[2], q[2]) /\ RLe(q[2], max[2])

\* q lies on the closed segment a-b
OnSegment(q, a, b) ==
    /\ RMul(RSub(b[1], a[1]), RSub(q[2], a[2]))
         = RMul(RSub(b[2], a[2]), RSub(q[1], a[1]))
    /\ RLe(RMin(a[1], b[1]), q[1]) /\ RLe(q[1], RMax(a[1], b[1]))
    /\ RLe(RMin(a[2], b[2]), q[2]) /\ RLe(q[2], RMax(a[2], b[2]))

\* the point a + t (b - a)
PointAt(a, b, t) ==
    <<RAdd(a[1], RMul(t, RSub(b[1], a[1]))),
      RAdd(a[2], RMul(t, RSub(b[2], a[2])))>>

\* the parameters at which the line a-b meets the rectangle's four sides
SideParams(a, b, min, max) ==
    {RDiv(RSub(s, a[1]), RSub(b[1], a[1])) : s \in {min[1], max[1]}}
    \cup {RDiv(RSub(s, a[2]), RSub(b[2], a[2])) : s \in {min[2], max[2]}}

\* the closed segment a-b has a point in the rectangle: if it has one, it
\* has one at an endpoint or on a side of the rectangle
SegmentMeetsRect(a, b, min, max) ==
    \E t \in {F(0), F(1)} \cup SideParams(a, b, min, max) :
        /\ RLe(F(0), t) /\ RLe(t, F(1))
        /\ InRect(PointAt(a, b, t), min, max)

\* the clipper is about to return Some((pt1, pt2))
ClipReturnsSome ==
    /\ pc = "clip"
    /\ ~TrivialReject(clip.outcode1, clip.outcode2)
    /\ TrivialAccept(clip.outcode1, clip.outcode2)

\* the clipper is about to return None
ClipReturnsNone ==
    /\ pc = "clip"
    /\ TrivialReject(clip.outcode1, clip.outcode2)

(* ------------------------------- claims -------------------------------- *)

\* C1: whenever the clipper returns Some((p1', p2')), both returned points
\* lie in the rectangle and on the original segment p1-p2.
C1_ClippedToRectangle ==
    ClipReturnsSome =>
        /\ InRect(clip.pt1, clip.min, clip.max)
        /\ InRect(clip.pt2, clip.min, clip.max)
        /\ OnSegment(clip.pt1, clip.p1, clip.p2)
        /\ OnSegment(clip.pt2, clip.p1, clip.p2)

\* C2: the clipper returns None only for a segment that has no point in
\* the rectangle.
C2_NoneOnlyWhenOutside ==
    ClipReturnsNone =>
        ~SegmentMeetsRect(clip.p1, clip.p2, clip.min, clip.max)

\* a pixel of the buffer
InBuffer(w) == 0 <= w[1] /\ w[1] < width /\ 0 <= w[2] /\ w[2] < height

RowPixels(y) == {x \in 0 .. (width - 1) : <<x, y>> \in writes}

\* the triangle of the end-to-end scenario
ScenarioTriangle ==
    <<<<F(-1), F(-1)>>, <<F(1), F(-1)>>, <<F(0), F(1)>>>>

\* C4: on a 10x10 canvas the triangle (-1,-1), (1,-1), (0,1) leaves red
\* pixels on the whole bottom row y = 9 and on one column of the top row.
C4_EndToEnd ==
    (pc = "done" /\ op = "triangle" /\ width = 10 /\ height = 10
        /\ args = ScenarioTriangle)
    => /\ RowPixels(9) = 0 .. 9
       /\ Cardinality(RowPixels(0)) = 1

\* C5: the viewport transform maps NDC (-1,-1) to (origin.x, origin.y+h-1)
\* and NDC (+1,+1) to (origin.x+w-1, origin.y).
C5_ViewportMapping ==
    (op = "triangle" /\ pc # "start") =>
        \A k \in 1 .. 3 :
            /\ args[k] = <<F(-1), F(-1)>> =>
                  vertices[k] = <<F(viewport.x),
                                  F(viewport.y + viewport.h - 1)>>
            /\ args[k] = <<F(1), F(1)>> =>
                  vertices[k] = <<F(viewport.x + viewport.w - 1),
                                  F(viewport.y)>>

\* both trapezoids of a split triangle have been handled, and the row
\* ceil(m) of their shared bound m is a row of the buffer
SharedRow == AsInt(Ceil(traps[1].bottom))

SplitTriangleFilled ==
    /\ op = "triangle" /\ pc \notin {"start", "trapezoid"}
    /\ traps[1].some /\ traps[2].some
    /\ traps[1].bottom = traps[2].top
    /\ 0 <= SharedRow /\ SharedRow <= height - 1

\* C6 as stated: the shared middle row is scanned for exactly one of the
\* two trapezoids.
C6_ExactlyOne ==
    SplitTriangleFilled =>
        (SharedRow \in rows[1]) # (SharedRow \in rows[2])

\* C6 amended: the shared middle row is never scanned for the first
\* trapezoid (so never for both); it is scanned for the second exactly
\* when ceil(m) < ceil(trap2.bottom) and ceil(m) < height - 1.
C6_SharedRow ==
    SplitTriangleFilled =>
        /\ SharedRow \notin rows[1]
        /\ (SharedRow \in rows[2]) <=>
              (/\ SharedRow < AsInt(Ceil(traps[2].bottom))
               /\ SharedRow < height - 1)

\* C6 witness: a split triangle whose shared row is scanned for the second
\* trapezoid, below rows scanned for the first
C6_Witness ==
    /\ SplitTriangleFilled
    /\ rows[1] # {}
    /\ SharedRow \in rows[2]

Max(a, b) == IF a >= b THEN a ELSE b
Min(a, b) == IF a <= b THEN a ELSE b

\* the rasterizer's loop has exited
LineLoopExited == pc = "raster" /\ line.x = line.final_x

\* the major axis is y when |x1 - x0| < |y1 - y0|, else x
MajorIsY == Abs(line.x1 - line.x0) < Abs(line.y1 - line.y0)
MajorLen == Max(Abs(line.x1 - line.x0), Abs(line.y1 - line.y0))
MinorLen == Min(Abs(line.x1 - line.x0), Abs(line.y1 - line.y0))
MajorOf(w) == IF MajorIsY THEN w[2] ELSE w[1]
MinorOf(w) == IF MajorIsY THEN w[1] ELSE w[2]
Start == <<line.x0, line.y0>>
End == <<line.x1, line.y1>>
Sign(a, b) == IF b >= a THEN 1 ELSE -1
MajorSign == Sign(MajorOf(Start), MajorOf(End))
MinorSign == Sign(MinorOf(Start), MinorOf(End))
LogSet == {lineLog[k] : k \in 1 .. Len(lineLog)}

\* C7: draw_line_without_clip writes exactly max(|x1-x0|, |y1-y0|) pixels,
\* one for each major-axis coordinate from the start (inclusive) to the end
\* (exclusive); the start pixel is written when the endpoints differ, the
\* end pixel never, no pixel twice; (0,0)-(5,0) writes x = 0..4 on y = 0.
C7_LineCoverage ==
    LineLoopExited =>
        /\ Len(lineLog) = MajorLen
        /\ \A k \in 1 .. Len(lineLog) :
              MajorOf(lineLog[k]) = MajorOf(Start) + (k - 1) * MajorSign
        /\ (Start # End) => (lineLog # <<>> /\ lineLog[1] = Start)
        /\ End \notin LogSet
        /\ Cardinality(LogSet) = Len(lineLog)
        /\ (Start = <<0, 0>> /\ End = <<5, 0>>) =>
              lineLog = <<<<0, 0>>, <<1, 0>>, <<2, 0>>, <<3, 0>>, <<4, 0>>>>

\* C7 witness: the line (0,0)-(5,0) has been rasterized
C7_Witness ==
    /\ LineLoopExited
    /\ Start = <<0, 0>> /\ End = <<5, 0>>
    /\ Len(lineLog) = 5

\* C8: every call of draw_line completes: the clipper's loop reaches its
\* accept or reject return and the rasterizer's loop reaches final_x.
C8_DrawLineTerminates == (pc = "clip") ~> (pc \in {"outline", "done"})

\* C8 witness: a line whose two endpoints were both clipped has been
\* rasterized to the end
C8_Witness ==
    /\ LineLoopExited
    /\ clip.pt1 # clip.p1 /\ clip.pt2 # clip.p2
    /\ Len(lineLog) > 1

\* C9: the denominator of every intersection the clipper computes is
\* nonzero.
C9_NoDivisionByZero ==
    (pc = "clip" /\ clip.branch # INSIDE) =>
        (IsFinite(clip.denom) /\ clip.denom[1] # 0)

\* C9 witness: an exactly horizontal segment was clipped at the left or
\* right side, or an exactly vertical one at the top or bottom
C9_Witness ==
    /\ pc = "clip"
    /\ clip.p1 # clip.p2
    /\ \/ clip.branch \in {LEFT, RIGHT} /\ clip.p1[2] = clip.p2[2]
       \/ clip.branch \in {TOP, BOTTOM} /\ clip.p1[1] = clip.p2[1]

\* the minor-axis offset of the k-th write from the start, along the line
MinorOffset(k) == (MinorOf(lineLog[k]) - MinorOf(Start)) * MinorSign

\* C10: with D > 0 the error term satisfies -2D <= e < 0 at the start of
\* every loop iteration; the pixel at major offset k has a minor offset m
\* with |m - k d / D| <= 1/2 and 0 <= m <= d; every pixel lies in the
\* bounding box of the endpoints and the minor coordinate changes by at
\* most 1 between consecutive pixels.  (Every pixel is the last of the log
\* in the state that follows its write, so the last one is examined.)
C10_LineAccuracy ==
    (pc = "raster" /\ MajorLen > 0) =>
        /\ (line.x # line.final_x) => (-2 * MajorLen <= line.e /\ line.e < 0)
        /\ LET n == Len(lineLog)
           IN  /\ n > 0 =>
                    /\ Abs(2 * MajorLen * MinorOffset(n)
                           - 2 * (n - 1) * MinorLen) <= MajorLen
                    /\ 0 <= MinorOffset(n) /\ MinorOffset(n) <= MinorLen
                    /\ Min(line.x0, line.x1) <= lineLog[n][1]
                    /\ lineLog[n][1] <= Max(line.x0, line.x1)
                    /\ Min(line.y0, line.y1) <= lineLog[n][2]
                    /\ lineLog[n][2] <= Max(line.y0, line.y1)
               /\ n > 1 =>
                    Abs(MinorOf(lineLog[n]) - MinorOf(lineLog[n - 1])) <= 1

\* C10 witness: a line that is neither axis-aligned nor diagonal has been
\* rasterized, and its minor coordinate has moved
C10_Witness ==
    /\ LineLoopExited
    /\ 0 < MinorLen /\ MinorLen < MajorLen
    /\ Len(lineLog) >= 3
    /\ MinorOffset(Len(lineLog)) > 0

====
